---- MODULE Spec2Model ----
(***************************************************************************)
(* State-machine model of dice_roller.ino: a two-player dice roller that   *)
(* polls two active-LOW buttons, animates two BCD displays with a buzzer   *)
(* and shows a final pair of random faces.                                 *)
(*                                                                         *)
(* One step of the model is one hardware primitive of the sketch           *)
(* (digitalRead, digitalWrite, tone, noTone, delay), together with the     *)
(* loop tests, calls and returns around it.  The buttons are inputs: each  *)
(* digitalRead returns LOW or HIGH, and the environment says which account *)
(* of the players lies behind the level read.                              *)
(***************************************************************************)
EXTENDS Integers, Sequences, FiniteSets, TLC

(* ------------------------- bounds of the model ------------------------- *)

\* Largest argument playRollSound is applied to in SpecSound.
MaxDuration == 12

(* -------------------------- hardware constants ------------------------- *)

LOW == 0
HIGH == 1

seg1_pins == <<3, 4, 5>>
seg2_pins == <<8, 9, 10>>
button1 == 2
button2 == 11
buzzerPin == 6

BCDPins == {seg1_pins[x] : x \in 1..3} \cup {seg2_pins[x] : x \in 1..3}

(* ---------------------------- pure helpers ----------------------------- *)

Max(a, b) == IF a >= b THEN a ELSE b

\* random(lo, hi): a value in lo .. hi-1.
Random(lo, hi) == lo .. (hi - 1)

DieDraw_Seven == Random(1, 8)
\* random(1, 7) at lines 112, 113, 122, 123.
DieDraw == Random(1, 7)

PitchDraw_Inclusive == {500 + r : r \in Random(0, 501)}
\* 500 + random(500) at line 148.
PitchDraw == {500 + r : r \in Random(0, 500)}

BitOf_Reversed(number, i) == (number \div (2 ^ (2 - i))) % 2
\* number >> i & 0x01, which C parses as (number >> i) & 0x01.
BitOf(number, i) == (number \div (2 ^ i)) % 2

\* Conversion of the double num/den to int: truncation toward zero.
TruncToInt(num, den) ==
    IF num >= 0 THEN num \div den ELSE -((-num) \div den)

Intensity_Rounded(i) == (i * 5 + 5) \div 10
\* The argument of playRollSound(i * 0.5): i * 5/10 converted to int.
Intensity(i) == TruncToInt(i * 5, 10)

FrameDelay_NoSlowdown(delayTime, i) == delayTime
\* delay(delayTime + i * 2) at line 114.
FrameDelay(delayTime, i) == delayTime + i * 2

\* The value a die's three pins encode, pins[1] being bit 0.
DieValue(p, pins) == p[pins[1]] + 2 * p[pins[2]] + 4 * p[pins[3]]

DieIndex(pins) == IF pins = seg1_pins THEN 1 ELSE 2

IsPrefix(s, t) == Len(s) <= Len(t) /\ s = SubSeq(t, 1, Len(s))

\* The calls of the body of loop(), in program order (lines 92-95).
FullCycle == <<"rollDice", "playStopSound", "showResult", "delay">>

(* ------------------------------- state --------------------------------- *)

VARIABLES
    pin,        \* level driven on each BCD pin
    buzzer,     \* buzzerPin is sounding
    toneFreq,   \* frequency of the tone whose duration is running, else 0
    toneLeft,   \* ms left of the duration given to the last tone()
    lateTimer,  \* this build's tone timer can fire after delay has returned
    lastRead,   \* value returned by the last digitalRead
    pc,         \* source line about to execute
    stack,      \* return addresses of the active calls
    i,          \* rollDice: frame index
    count,      \* rollDice: parameter
    delayTime,  \* rollDice: parameter
    duration,   \* playRollSound: parameter
    j,          \* playRollSound: loop index
    number,     \* showNumber: parameter
    pins,       \* showNumber: parameter
    k,          \* showNumber: loop index
    \* observation of the run (no effect on the program)
    log,        \* calls made by loop() in the current iteration
    trigger,    \* button pin whose read started the last cycle, 0 if none
    story,      \* the players' account of the level read last (see Accounts)
    missed,     \* a press began and ended inside the last roll cycle
    afterRoll,  \* the poll under way is the first one after a roll cycle
    draws,      \* random(1,7) calls since the cycle started
    updates,    \* completed showNumber calls per die since the cycle started
    tones,      \* tone() calls of the last playRollSound call
    gaps,       \* delay(20) calls of the last playRollSound call
    slept,      \* argument of the last delay()
    result,     \* the two values drawn by showResult in the cycle
    shown       \* per die: a showNumber call has completed since setup

hw == <<pin, buzzer, toneFreq, toneLeft, lateTimer>>
env == <<lastRead, story, missed, afterRoll>>
locals == <<i, count, delayTime, duration, j, number, pins, k>>
rollLocals == <<i, count, delayTime>>
soundLocals == <<duration, j>>
showLocals == <<number, pins, k>>
cycleObs == <<log, trigger>>
drawObs == <<draws, updates, result, shown>>
soundObs == <<tones, gaps>>
vars == <<pin, buzzer, toneFreq, toneLeft, lateTimer, lastRead, pc, stack, i,
          count, delayTime, duration, j, number, pins, k, log, trigger, story,
          missed, afterRoll, draws, updates, tones, gaps, slept, result, shown>>

Idle == pc \in {"loop_90a", "loop_90b"}
Rolling == pc \notin {"setup", "loop_90a", "loop_90b", "done"}

(* ------------------------- platform primitives ------------------------- *)

\* delay(ms): blocks for ms; a tone whose duration ends inside the delay is
\* stopped by its timer, and one whose duration ends exactly with the delay
\* has been stopped when delay returns, or, on a build whose timer can fire
\* late, is still sounding until the next tone() or noTone().  A tone left
\* sounding keeps the frequency it had, which nothing in the sketch reads
\* and the state does not carry past the tone's duration.
Delay(ms) ==
    /\ slept' = ms
    /\ toneLeft' = Max(toneLeft - ms, 0)
    /\ toneFreq' = IF toneLeft > ms THEN toneFreq ELSE 0
    /\ buzzer' \in (IF toneLeft > ms THEN {buzzer}
                    ELSE IF toneLeft = ms /\ lateTimer THEN {buzzer, FALSE}
                    ELSE {FALSE})

\* tone(buzzerPin, frequency, ms): starts the square wave, replacing a tone
\* still sounding, and returns.
Tone(frequency, ms) ==
    /\ buzzer' = TRUE
    /\ toneFreq' = frequency
    /\ toneLeft' = ms

\* noTone(buzzerPin)
NoTone ==
    /\ buzzer' = FALSE
    /\ toneFreq' = 0
    /\ toneLeft' = 0

(* ------------------------------ setup() -------------------------------- *)

Setup_NoClear ==
    /\ pc = "setup"
    /\ pc' = "loop_90a"
    /\ NoTone
    /\ UNCHANGED <<pin, lateTimer, env, stack, locals, cycleObs, drawObs,
                   soundObs, slept>>

\* Lines 60-81: all six BCD pins driven LOW, the buzzer silenced.
Setup ==
    /\ pc = "setup"
    /\ pc' = "loop_90a"
    /\ pin' = [p \in BCDPins |-> LOW]
    /\ NoTone
    /\ UNCHANGED <<lateTimer, env, stack, locals, cycleObs, drawObs,
                   soundObs, slept>>

(* ------------------------------- loop() -------------------------------- *)

\* What the players did to bring button b to level v at this read.  After
\* a roll cycle, in which nothing reads the pins, a LOW level may belong to
\* a press held since the poll that started the cycle ("held"; "heldBoth"
\* when both buttons were held, which button1 then shows) or to a press that
\* began during the cycle ("late"), and a HIGH level may hide a press that
\* began and ended during the cycle ("missed"); "idle" is a level reached
\* while the loop was polling.
Accounts(b, v) ==
    IF ~afterRoll THEN {"idle"}
    ELSE IF v = LOW
         THEN {"idle", "late"}
              \cup (IF trigger = b THEN {"held"} ELSE {})
              \cup (IF trigger = b /\ b = button1 THEN {"heldBoth"} ELSE {})
         ELSE {"idle", "missed"}

ReadsLow_Latched(v) == v = LOW \/ missed
\* digitalRead(...) == LOW at line 90, v being the value digitalRead returned.
ReadsLow(v) == v = LOW

\* The condition of line 90 is true: the body (lines 92-95) is entered.
Trigger(b, lg) ==
    /\ pc' = "loop_92"
    /\ log' = lg
    /\ trigger' = b
    /\ draws' = 0
    /\ updates' = <<0, 0>>
    /\ result' = <<0, 0>>
    /\ UNCHANGED <<hw, afterRoll, stack, locals, soundObs, slept, shown>>

\* Line 90, left operand of ||: a new iteration of loop() reads button1.
LoopRead1 ==
    /\ pc = "loop_90a"
    /\ \E v \in {LOW, HIGH} : \E a \in Accounts(button1, v) :
          /\ lastRead' = v
          /\ story' = a
          /\ missed' = (missed \/ a = "missed")
          /\ IF ReadsLow(v)
             THEN Trigger(button1, <<>>)
             ELSE /\ pc' = "loop_90b"
                  /\ log' = <<>>
                  /\ UNCHANGED <<hw, afterRoll, stack, locals, trigger,
                                 drawObs, soundObs, slept>>

\* Line 90, right operand of ||: read only when button1 read HIGH; when it
\* reads HIGH too, loop() returns and is called again.
LoopRead2 ==
    /\ pc = "loop_90b"
    /\ \E v \in {LOW, HIGH} : \E a \in Accounts(button2, v) :
          /\ lastRead' = v
          /\ story' = a
          /\ missed' = (missed \/ a = "missed")
          /\ IF ReadsLow(v)
             THEN Trigger(button2, log)
             ELSE /\ pc' = "loop_90a"
                  /\ trigger' = 0
                  /\ afterRoll' = FALSE
                  /\ UNCHANGED <<hw, stack, locals, log, drawObs, soundObs,
                                 slept>>

LoopCallRollDice_SkipStop ==
    /\ pc = "loop_92"
    /\ pc' = "rd_108"
    /\ stack' = <<"loop_94">>
    /\ i' = 0
    /\ count' = 20
    /\ delayTime' = 50
    /\ log' = Append(log, "rollDice")
    /\ story' = "idle"
    /\ missed' = FALSE
    /\ afterRoll' = FALSE
    /\ UNCHANGED <<hw, lastRead, soundLocals, showLocals, trigger, drawObs,
                   soundObs, slept>>

\* Line 92: rollDice(20, 50); line 108: int i = 0.
LoopCallRollDice ==
    /\ pc = "loop_92"
    /\ pc' = "rd_108"
    /\ stack' = <<"loop_93">>
    /\ i' = 0
    /\ count' = 20
    /\ delayTime' = 50
    /\ log' = Append(log, "rollDice")
    /\ story' = "idle"
    /\ missed' = FALSE
    /\ afterRoll' = FALSE
    /\ UNCHANGED <<hw, lastRead, soundLocals, showLocals, trigger, drawObs,
                   soundObs, slept>>

(* ----------------------------- rollDice() ------------------------------ *)

\* Lines 108-110: i < count, playRollSound(i * 0.5) is called.
RollDiceCallSound ==
    /\ pc = "rd_108"
    /\ i < count
    /\ pc' = "prs_146"
    /\ stack' = <<"rd_112">> \o stack
    /\ duration' = Intensity(i)
    /\ j' = 0
    /\ tones' = 0
    /\ gaps' = 0
    /\ UNCHANGED <<hw, env, rollLocals, showLocals, cycleObs, drawObs, slept>>

\* Line 108 with i >= count: rollDice returns.
RollDiceReturn ==
    /\ pc = "rd_108"
    /\ i >= count
    /\ pc' = Head(stack)
    /\ stack' = Tail(stack)
    /\ UNCHANGED <<hw, env, locals, cycleObs, drawObs, soundObs, slept>>

\* A call showNumber(n, p) whose return address is the head of newStack.
CallShowNumber(n, p, newStack) ==
    /\ pc' = "sn_134"
    /\ stack' = newStack
    /\ number' = n
    /\ pins' = p
    /\ k' = 0
    /\ draws' = draws + 1

\* Line 112: showNumber(random(1, 7), seg1_pins).
RollDiceShow1 ==
    /\ pc = "rd_112"
    /\ \E n \in DieDraw : CallShowNumber(n, seg1_pins, <<"rd_113">> \o stack)
    /\ UNCHANGED <<hw, env, rollLocals, soundLocals, cycleObs, updates,
                   result, shown, soundObs, slept>>

\* Line 113: showNumber(random(1, 7), seg2_pins).
RollDiceShow2 ==
    /\ pc = "rd_113"
    /\ \E n \in DieDraw : CallShowNumber(n, seg2_pins, <<"rd_114">> \o stack)
    /\ UNCHANGED <<hw, env, rollLocals, soundLocals, cycleObs, updates,
                   result, shown, soundObs, slept>>

\* Line 114 and the i++ of line 108.
RollDiceDelay ==
    /\ pc = "rd_114"
    /\ Delay(FrameDelay(delayTime, i))
    /\ i' = i + 1
    /\ pc' = "rd_108"
    /\ UNCHANGED <<pin, lateTimer, env, stack, count, delayTime, soundLocals,
                   showLocals, cycleObs, drawObs, soundObs>>

(* ---------------------------- showNumber() ----------------------------- *)

\* Lines 134-136: one digitalWrite and the i++ of the loop.
ShowNumberWrite ==
    /\ pc = "sn_134"
    /\ k < 3
    /\ pin' = [pin EXCEPT ![pins[k + 1]] = IF BitOf(number, k) = 0 THEN LOW ELSE HIGH]
    /\ k' = k + 1
    /\ UNCHANGED <<buzzer, toneFreq, toneLeft, lateTimer, env, pc, stack,
                   rollLocals, soundLocals, number, pins, cycleObs, drawObs,
                   soundObs, slept>>

\* Line 134 with i >= 3: showNumber returns.
ShowNumberReturn ==
    /\ pc = "sn_134"
    /\ k >= 3
    /\ pc' = Head(stack)
    /\ stack' = Tail(stack)
    /\ updates' = [updates EXCEPT ![DieIndex(pins)] = @ + 1]
    /\ shown' = [shown EXCEPT ![DieIndex(pins)] = TRUE]
    /\ UNCHANGED <<hw, env, locals, cycleObs, draws, result, soundObs, slept>>

(* --------------------------- playRollSound() --------------------------- *)

\* Lines 146-148: i < duration, tone(buzzerPin, 500 + random(500), 20).
PlayRollSoundTone ==
    /\ pc = "prs_146"
    /\ j < duration
    /\ \E f \in PitchDraw : Tone(f, 20)
    /\ tones' = tones + 1
    /\ pc' = "prs_149"
    /\ UNCHANGED <<pin, lateTimer, env, stack, locals, cycleObs, drawObs,
                   gaps, slept>>

PlayRollSoundDelay_Short ==
    /\ pc = "prs_149"
    /\ Delay(10)
    /\ gaps' = gaps + 1
    /\ j' = j + 1
    /\ pc' = "prs_146"
    /\ UNCHANGED <<pin, lateTimer, env, stack, rollLocals, duration,
                   showLocals, cycleObs, drawObs, tones>>

\* Line 149, delay(20), and the i++ of line 146.
PlayRollSoundDelay ==
    /\ pc = "prs_149"
    /\ Delay(20)
    /\ gaps' = gaps + 1
    /\ j' = j + 1
    /\ pc' = "prs_146"
    /\ UNCHANGED <<pin, lateTimer, env, stack, rollLocals, duration,
                   showLocals, cycleObs, drawObs, tones>>

\* Line 146 with i >= duration, then line 151: noTone and return.
PlayRollSoundNoTone ==
    /\ pc = "prs_146"
    /\ j >= duration
    /\ NoTone
    /\ pc' = Head(stack)
    /\ stack' = Tail(stack)
    /\ UNCHANGED <<pin, lateTimer, env, locals, cycleObs, drawObs, soundObs,
                   slept>>

(* --------------------------- playStopSound() --------------------------- *)

\* Line 93 and line 159: playStopSound() is called, tone(buzzerPin, 200, 100).
LoopPlayStopSound ==
    /\ pc = "loop_93"
    /\ log' = Append(log, "playStopSound")
    /\ Tone(200, 100)
    /\ pc' = "pss_160"
    /\ stack' = <<"loop_94">> \o stack
    /\ UNCHANGED <<pin, lateTimer, env, locals, trigger, drawObs, soundObs,
                   slept>>

\* Line 160: delay(100).
PlayStopSoundDelay ==
    /\ pc = "pss_160"
    /\ Delay(100)
    /\ pc' = "pss_161"
    /\ UNCHANGED <<pin, lateTimer, env, stack, locals, cycleObs, drawObs,
                   soundObs>>

PlayStopSoundNoTone_Missing ==
    /\ pc = "pss_161"
    /\ pc' = Head(stack)
    /\ stack' = Tail(stack)
    /\ UNCHANGED <<hw, env, locals, cycleObs, drawObs, soundObs, slept>>

\* Line 161: noTone(buzzerPin), and the return.
PlayStopSoundNoTone ==
    /\ pc = "pss_161"
    /\ NoTone
    /\ pc' = Head(stack)
    /\ stack' = Tail(stack)
    /\ UNCHANGED <<pin, lateTimer, env, locals, cycleObs, drawObs, soundObs,
                   slept>>

(* ----------------------------- showResult() ---------------------------- *)

\* Lines 94 and 122: showResult() is called, showNumber(random(1,7), seg1_pins).
LoopShowResult ==
    /\ pc = "loop_94"
    /\ log' = Append(log, "showResult")
    /\ \E n \in DieDraw :
          /\ CallShowNumber(n, seg1_pins, <<"sr_123", "loop_95">> \o stack)
          /\ result' = [result EXCEPT ![1] = n]
    /\ UNCHANGED <<hw, env, rollLocals, soundLocals, trigger, updates,
                   shown, soundObs, slept>>

\* Line 123: showNumber(random(1, 7), seg2_pins).
ShowResultSecond ==
    /\ pc = "sr_123"
    /\ \E n \in DieDraw :
          /\ CallShowNumber(n, seg2_pins, <<"sr_124">> \o stack)
          /\ result' = [result EXCEPT ![2] = n]
    /\ UNCHANGED <<hw, env, rollLocals, soundLocals, cycleObs, updates,
                   shown, soundObs, slept>>

\* Line 124: showResult returns.
ShowResultReturn ==
    /\ pc = "sr_124"
    /\ pc' = Head(stack)
    /\ stack' = Tail(stack)
    /\ UNCHANGED <<hw, env, locals, cycleObs, drawObs, soundObs, slept>>

LoopDelay_FallThrough ==
    /\ pc = "loop_95"
    /\ log' = Append(log, "delay")
    /\ Delay(300)
    /\ pc' = "loop_90b"
    /\ afterRoll' = TRUE
    /\ UNCHANGED <<pin, lateTimer, lastRead, story, missed, stack, locals,
                   trigger, drawObs, soundObs>>

\* Lines 95-97: delay(300), then loop() returns and is called again.
LoopDelay ==
    /\ pc = "loop_95"
    /\ log' = Append(log, "delay")
    /\ Delay(300)
    /\ pc' = "loop_90a"
    /\ afterRoll' = TRUE
    /\ UNCHANGED <<pin, lateTimer, lastRead, story, missed, stack, locals,
                   trigger, drawObs, soundObs>>

(* --------------------------- specifications ---------------------------- *)

InitObs ==
    /\ log = <<>>
    /\ trigger = 0
    /\ story = "idle"
    /\ missed = FALSE
    /\ afterRoll = FALSE
    /\ draws = 0
    /\ updates = <<0, 0>>
    /\ tones = 0
    /\ gaps = 0
    /\ slept = 0
    /\ result = <<0, 0>>
    /\ shown = <<FALSE, FALSE>>

InitLocals ==
    /\ i = 0
    /\ count = 0
    /\ delayTime = 0
    /\ duration = 0
    /\ j = 0
    /\ number = 0
    /\ pins = seg1_pins
    /\ k = 0

\* Power-on, before setup(): the BCD pins are not driven yet, no button has
\* been read, no tone sounds; the build's tone timer is of either kind.
Init ==
    /\ pin \in [BCDPins -> {LOW, HIGH}]
    /\ buzzer = FALSE
    /\ toneFreq = 0
    /\ toneLeft = 0
    /\ lateTimer \in BOOLEAN
    /\ lastRead = HIGH
    /\ pc = "setup"
    /\ stack = <<>>
    /\ InitLocals
    /\ InitObs

Next ==
    \/ Setup
    \/ LoopRead1
    \/ LoopRead2
    \/ LoopCallRollDice
    \/ RollDiceCallSound
    \/ RollDiceReturn
    \/ RollDiceShow1
    \/ RollDiceShow2
    \/ RollDiceDelay
    \/ ShowNumberWrite
    \/ ShowNumberReturn
    \/ PlayRollSoundTone
    \/ PlayRollSoundDelay
    \/ PlayRollSoundNoTone
    \/ LoopPlayStopSound
    \/ PlayStopSoundDelay
    \/ PlayStopSoundNoTone
    \/ LoopShowResult
    \/ ShowResultSecond
    \/ ShowResultReturn
    \/ LoopDelay

\* The whole program, on either kind of build.
Spec == Init /\ [][Next]_vars

\* playRollSound(duration) alone, applied to every duration in
\* 0 .. MaxDuration on a silent buzzer and on either kind of build; it
\* returns to "done".
InitSound ==
    /\ pin = [p \in BCDPins |-> LOW]
    /\ buzzer = FALSE
    /\ toneFreq = 0
    /\ toneLeft = 0
    /\ lateTimer \in BOOLEAN
    /\ lastRead = HIGH
    /\ pc = "prs_146"
    /\ stack = <<"done">>
    /\ i = 0
    /\ count = 0
    /\ delayTime = 0
    /\ duration \in 0 .. MaxDuration
    /\ j = 0
    /\ number = 0
    /\ pins = seg1_pins
    /\ k = 0
    /\ InitObs

NextSound ==
    \/ PlayRollSoundTone
    \/ PlayRollSoundDelay
    \/ PlayRollSoundNoTone

SpecSound == InitSound /\ [][NextSound]_vars

(* ------------------------------- claims -------------------------------- *)

Face(d) == DieValue(pin, d)
Faces == 1 .. 6

\* C1: a cycle started by button1 reading LOW calls, in this order and once
\* each, rollDice(20, 50) (20 frames, 40 draws), playStopSound, showResult
\* (exactly two further draws in 1..6, one written to each die) and
\* delay(300), and is then back at the poll; no step of the cycle reads a
\* button, so the level of button2 has no part in it.
C1_CycleOrder ==
    trigger = button1 =>
        /\ IsPrefix(log, FullCycle)
        /\ pc = "loop_92" => log = <<>>
        /\ pc \in {"rd_108", "rd_112", "rd_113", "rd_114", "prs_146", "prs_149"}
              => log = <<"rollDice">> /\ count = 20 /\ delayTime = 50 /\ i <= 20
        /\ pc = "loop_93" => log = <<"rollDice">> /\ i = 20 /\ draws = 40
        /\ pc \in {"pss_160", "pss_161", "loop_94"}
              => log = <<"rollDice", "playStopSound">> /\ draws = 40
        /\ pc \in {"sr_123", "sr_124", "loop_95"}
              => log = <<"rollDice", "playStopSound", "showResult">>
        /\ pc = "sr_123" => draws = 41 /\ updates = <<21, 20>>
        /\ pc = "loop_95"
              => /\ draws = 42
                 /\ updates = <<21, 21>>
                 /\ result \in Faces \X Faces
                 /\ Face(seg1_pins) = result[1]
                 /\ Face(seg2_pins) = result[2]
        /\ pc = "loop_90a" => log = FullCycle /\ slept = 300 /\ draws = 42

\* A cycle started by button1 reading LOW has completed and the loop is
\* back at the poll.
C1_Witness ==
    /\ pc = "loop_90a"
    /\ trigger = button1
    /\ lastRead = LOW
    /\ log = FullCycle
    /\ afterRoll
    /\ slept = 300

\* The step that enters the body of line 90.
StartsCycle == pc' = "loop_92" /\ pc # "loop_92"

\* C2 as stated: both buttons held LOW since the poll that started a roll
\* cycle start no further cycle, however long they are held.
C2_Original == [][StartsCycle => story' # "heldBoth"]_vars

\* C2: a poll that finds both buttons LOW starts one roll cycle, whose calls
\* are never interleaved with those of another cycle: the calls made since a
\* poll are a prefix of one cycle, and a cycle is started by a poll only,
\* which is reached again only when delay(300) has returned.
C2_OnePerPoll ==
    [][/\ IsPrefix(log', FullCycle)
       /\ StartsCycle =>
             /\ \/ pc = "loop_90a" /\ log \in {<<>>, FullCycle}
                \/ pc = "loop_90b" /\ log = <<>>
             /\ log' = <<>>
       /\ (Rolling /\ Idle') => pc = "loop_95" /\ slept' = 300]_vars

\* Both buttons were held from the poll that started a cycle through the
\* whole cycle, and the next poll has just started a second cycle.
C2_Witness ==
    /\ pc = "loop_92"
    /\ story = "heldBoth"
    /\ trigger = button1
    /\ log = <<>>
    /\ slept = 300

\* C3 as stated: no roll cycle is started by a press that began during a
\* roll cycle.
C3_Original == [][StartsCycle => story' # "late"]_vars

\* C3: the buttons are read at the poll only, and a cycle starts only when
\* the button polled reads LOW at that instant: a press that began and ended
\* during a roll cycle starts nothing, and the program takes no step that
\* starts a cycle from inside one.
C3_LevelAtPoll ==
    [][/\ StartsCycle => Idle /\ lastRead' = LOW
       /\ ~Idle => lastRead' = lastRead]_vars

\* A press began and ended during a roll cycle, and the loop has since
\* polled both buttons without starting a cycle.
C3_Witness ==
    /\ missed
    /\ pc = "loop_90a"
    /\ trigger = 0
    /\ lastRead = HIGH
    /\ slept = 300

\* C4: for number in 1..6, each write of showNumber changes no pin but
\* pins[i] and leaves the buzzer alone, and when showNumber returns the three
\* pins hold number & 1, (number >> 1) & 1 and (number >> 2) & 1.
C4_ShowNumber ==
    [][/\ pc = "sn_134" => number \in Faces /\ pins \in {seg1_pins, seg2_pins}
       /\ (pc = "sn_134" /\ k' # k) =>
             /\ \A p \in BCDPins \ {pins[k + 1]} : pin'[p] = pin[p]
             /\ buzzer' = buzzer
             /\ toneFreq' = toneFreq
             /\ toneLeft' = toneLeft
       /\ (pc = "sn_134" /\ pc' # "sn_134") =>
             /\ pin[pins[1]] = number % 2
             /\ pin[pins[2]] = (number \div 2) % 2
             /\ pin[pins[3]] = (number \div 4) % 2
             /\ pin' = pin]_vars

\* showNumber(5, seg2_pins) has made its three writes while die 1 shows 6.
C4_Witness ==
    /\ pc = "sn_134"
    /\ k = 3
    /\ pins = seg2_pins
    /\ number = 5
    /\ Face(seg2_pins) = 5
    /\ Face(seg1_pins) = 6

\* C5: rollDice(20, 50) makes 20 display updates on each die, each showing a
\* value drawn for it from 1..6 (40 draws), and the delay after frame i is
\* 50 + 2 * i ms.
C5_RollDice ==
    log = <<"rollDice">> =>
        /\ pc = "rd_108" =>
              /\ updates = <<i, i>>
              /\ draws = 2 * i
              /\ i > 0 => slept = 50 + 2 * (i - 1)
              /\ i > 0 => Face(seg1_pins) \in Faces /\ Face(seg2_pins) \in Faces
        /\ pc = "rd_113" => updates = <<i + 1, i>> /\ draws = 2 * i + 1
        /\ pc = "rd_114" => updates = <<i + 1, i + 1>> /\ draws = 2 * i + 2
        /\ pc = "sn_134" => number \in Faces
        /\ (pc = "sn_134" /\ k = 3) => Face(pins) = number
        /\ pc = "loop_93" => updates = <<20, 20>> /\ draws = 40 /\ slept = 88

\* rollDice has returned after its 20th frame, whose two dice differ.
C5_Witness ==
    /\ pc = "loop_93"
    /\ updates = <<20, 20>>
    /\ slept = 88
    /\ Face(seg1_pins) = 2
    /\ Face(seg2_pins) = 5

\* C6: playRollSound(duration), duration >= 0, makes exactly duration tone
\* calls, each at 500..999 Hz and each followed by delay(20), and returns
\* with the buzzer silent; with duration = 0 no tone is ever started.  The
\* buzzer sounds between two tones only when the timer has left the tone
\* before sounding.
C6_PlayRollSound ==
    /\ pc = "prs_146" =>
          /\ tones = j
          /\ gaps = j
          /\ j <= duration
          /\ j > 0 => slept = 20
          /\ toneFreq = 0
          /\ toneLeft = 0
          /\ buzzer => j > 0 /\ lateTimer
    /\ pc = "prs_149" =>
          /\ tones = j + 1
          /\ gaps = j
          /\ j < duration
          /\ buzzer
          /\ toneFreq \in 500 .. 999
          /\ toneLeft = 20
    /\ pc = "done" =>
          /\ tones = duration
          /\ gaps = duration
          /\ ~buzzer
          /\ toneFreq = 0
          /\ toneLeft = 0
    /\ (pc \in {"prs_146", "done"} /\ duration = 0)
          => tones = 0 /\ ~buzzer

\* playRollSound(10) has returned after 10 tones and 10 gaps.
C6_Witness ==
    /\ pc = "done"
    /\ duration = 10
    /\ tones = 10
    /\ gaps = 10

\* C7: in frame i of rollDice the roll sound receives i * 0.5 truncated,
\* which is floor(i / 2), and emits that many tones: none in frames 0 and 1.
C7_Intensity ==
    /\ pc \in {"prs_146", "prs_149"} /\ stack # <<"done">> =>
          /\ 2 * duration <= i
          /\ i <= 2 * duration + 1
    /\ pc = "rd_112" =>
          /\ 2 * tones <= i
          /\ i <= 2 * tones + 1
          /\ i \in {0, 1} => tones = 0 /\ gaps = 0

\* Frame 1 has played its roll sound without a tone, frame 0 before it too.
C7_Witness ==
    /\ pc = "rd_112"
    /\ i = 1
    /\ tones = 0
    /\ slept = 50

Silent == ~buzzer /\ toneFreq = 0 /\ toneLeft = 0

\* C8: a tone is started only when the duration of the previous one has
\* been waited out; each sound routine returns with the buzzer silent, its
\* noTone cutting a tone the timer has left sounding; and the buzzer is
\* silent whenever the loop is at the poll, after setup and after a cycle.
C8_BuzzerSerialized ==
    [][/\ (pc \in {"prs_146", "loop_93"} /\ pc' \in {"prs_149", "pss_160"})
             => /\ toneLeft = 0 /\ toneFreq = 0
                /\ buzzer' /\ toneFreq' # 0 /\ toneLeft' > 0
       /\ (pc \in {"prs_149", "pss_160"} /\ pc' # pc)
             => /\ toneLeft' = 0 /\ toneFreq' = 0
                /\ buzzer' => lateTimer
       /\ (pc \in {"prs_146", "pss_161"} /\ pc' \in {"rd_112", "loop_94"})
             => Silent'
       /\ Idle => Silent
       /\ Idle' => Silent']_vars

\* On a build whose timer can fire late, a whole roll cycle started by
\* button2 has run, and the loop has polled button1 with the buzzer silent.
C8_Witness ==
    /\ pc = "loop_90b"
    /\ lateTimer
    /\ lastRead = HIGH
    /\ afterRoll
    /\ trigger = button2
    /\ tones = 9
    /\ slept = 300
    /\ shown = <<TRUE, TRUE>>
    /\ Silent

\* C9 as stated: after setup each die's pins always encode 0, before any
\* showNumber call on that die, or a face 1..6, also between the writes of
\* showNumber.
C9_Original ==
    pc # "setup" =>
        \A d \in {seg1_pins, seg2_pins} :
            /\ Face(d) \in 0 .. 6
            /\ Face(d) = 0 => ~shown[DieIndex(d)]

\* C9: after setup, whenever showNumber is not part-way through its three
\* writes to a die, that die's pins encode 0, only until the first
\* showNumber call on it has returned, or a face 1..6.
C9_Settled ==
    pc # "setup" =>
        \A d \in {seg1_pins, seg2_pins} :
            \/ pc = "sn_134" /\ pins = d /\ k \in {1, 2}
            \/ /\ Face(d) \in 0 .. 6
               /\ Face(d) = 0 => ~shown[DieIndex(d)]

\* Both dice settled on faces after a frame, die 1 on 6 and die 2 on 1.
C9_Witness ==
    /\ pc = "rd_114"
    /\ shown = <<TRUE, TRUE>>
    /\ Face(seg1_pins) = 6
    /\ Face(seg2_pins) = 1

\* C10: a poll that reads a button HIGH writes no pin and starts no tone,
\* the buzzer is silent at the poll, and the dice show the two values
\* showResult drew last, or all six pins are LOW when no roll has happened
\* since setup.
C10_IdleFrame ==
    [][/\ Idle =>
             /\ ~buzzer
             /\ Face(seg1_pins) = result[1]
             /\ Face(seg2_pins) = result[2]
             /\ result \in (Faces \X Faces) \cup {<<0, 0>>}
             /\ result = <<0, 0>> <=> shown = <<FALSE, FALSE>>
       /\ (Idle /\ Idle')
             => /\ pin' = pin
                /\ buzzer' = buzzer
                /\ toneFreq' = toneFreq
                /\ toneLeft' = toneLeft]_vars

\* After a roll that ended on 3 and 4, a poll has read both buttons HIGH.
C10_Witness ==
    /\ pc = "loop_90a"
    /\ lastRead = HIGH
    /\ trigger = 0
    /\ slept = 300
    /\ result = <<3, 4>>
    /\ Face(seg1_pins) = 3
    /\ Face(seg2_pins) = 4

====
